---- MODULE Spec2Model ----
(***************************************************************************)
(* Task-creation workflow of the task-management application.             *)
(*                                                                         *)
(* One behaviour is one invocation of the create-task handler with fresh   *)
(* collaborators (the unit tests rebuild the DynamoDB and SES doubles in   *)
(* beforeEach).  The synchronous part of the handler and the helper        *)
(* functions of the integration tests are translated from the source; the  *)
(* assignee resolver, the storage write and the notification dispatcher    *)
(* are not part of the sources at hand and follow the written design.      *)
(*                                                                         *)
(* A JavaScript object is a function from its present keys to values, so   *)
(* a missing key is a key outside DOMAIN.  A string that is inspected      *)
(* (title, subject) is a sequence of tokens.                               *)
(***************************************************************************)
EXTENDS Naturals, Sequences, FiniteSets

\* ---------------------------------------------------------------- bounds
MaxMembers == 3
MaxInvocations == 2
MaxOps == 3
MaxClock == 1

\* ------------------------------------------------------------- JS values
Undefined == "undefined"
EmptyObject == [k \in {} |-> Undefined]

Has(obj, k) == k \in DOMAIN obj

\* {...a, ...b}: keys of b win
Spread(a, b) ==
  [k \in DOMAIN a \cup DOMAIN b |-> IF k \in DOMAIN b THEN b[k] ELSE a[k]]

ScriptOpen == "<script>"
ScriptClose == "</script>"

Contains(s, tok) == \E i \in 1..Len(s) : s[i] = tok

\* ------------------------------------------------------------- directory
UserIds == {"user1", "user2", "user3", "user4"}

\* DocumentClient.get on the users table: an Item, or no Item at all
UsersTable ==
  [user1 |-> [userId |-> "user1", email |-> "user1@amalitechtraining.org", status |-> "active"],
   user2 |-> [userId |-> "user2", email |-> "user2@amalitechtraining.org", status |-> "active"],
   user3 |-> [userId |-> "user3", email |-> "user3@amalitechtraining.org", status |-> "inactive"]]

DirectoryGet(userId) ==
  IF userId \in DOMAIN UsersTable THEN [Item |-> UsersTable[userId]] ELSE EmptyObject

\* a user counts as soon as the directory has an item for it
HasItemOnly(res) == Has(res, "Item")

IsActiveUser(res) == Has(res, "Item") /\ res["Item"].status = "active"

\* ---------------------------------------------------------------- inputs
Roles == {"admin", "member", "Admin"}

ClaimSets ==
  {EmptyObject}
    \cup {[k \in {"sub", "email"} |-> "actor"]}
    \cup {[k \in {"sub", "email", "custom:role"} |->
               IF k = "custom:role" THEN r ELSE "actor"] : r \in Roles}

Titles ==
  { <<>>,
    <<"Test", "Task">>,
    <<ScriptOpen, "alert", ScriptClose, "Task">>,
    <<ScriptOpen, "alert", ScriptClose>>,
    <<"Task", ScriptOpen>> }

Priorities == {"normal", "urgent", "critical"}

MemberLists == UNION {[1..n -> UserIds] : n \in 0..MaxMembers}

\* a value of assignedTo: an array of identifiers, or a value that is no array
Array(items) == [isArray |-> TRUE, items |-> items]
NotAnArray == [isArray |-> FALSE, items |-> <<>>]

MemberValues == {Array(l) : l \in MemberLists} \cup {NotAnArray}

OptionalField(k, vals) == {EmptyObject} \cup {[x \in {k} |-> v] : v \in vals}

Payloads ==
  { Spread(Spread(Spread(Spread(t, a), p), s), i) :
      t \in OptionalField("title", Titles),
      a \in OptionalField("assignedTo", {Array(l) : l \in MemberLists}),
      p \in OptionalField("priority", Priorities),
      s \in OptionalField("status", {"Completed"}),
      i \in OptionalField("taskId", {"client-id"}) }

\* event.body: no body, text that is not JSON, the JSON text "null",
\* or JSON.stringify of a payload object
Bodies ==
  {[kind |-> "absent"], [kind |-> "malformed"], [kind |-> "null"]}
    \cup {[kind |-> "json", value |-> p] : p \in Payloads}

Events == [claims : ClaimSets, body : Bodies]

VARIABLES event, pc, response, assigned, idx, resolved, task,
          getCalls, putCalls, putResults, sendCalls, sendResults, tasksTable,
          invocation, created, allTasks, opResult, opCount, now

vars == <<event, pc, response, assigned, idx, resolved, task,
          getCalls, putCalls, putResults, sendCalls, sendResults, tasksTable,
          invocation, created, allTasks, opResult, opCount, now>>

\* the state of one invocation of the create-task handler
createVars == <<event, pc, response, assigned, idx, resolved, task,
                getCalls, putCalls, putResults, sendCalls, sendResults,
                tasksTable, invocation, created>>

\* the task list the other operations work on, the last operation's
\* result, the number of operations so far and the clock
opsVars == <<allTasks, opResult, opCount, now>>

\* what one invocation leaves alone: the number of the invocation, the tasks
\* that earlier invocations returned as created, and the other operations
historyVars == <<invocation, created, opsVars>>

NoOperation == [op |-> "none"]

NoOperations ==
  /\ allTasks = <<>>
  /\ opResult = NoOperation
  /\ opCount = 0
  /\ now = 0

NoResponse == [statusCode |-> 0, body |-> EmptyObject]

Reply(code, msg) == [statusCode |-> code, body |-> [message |-> msg]]

\* the text of the caught error is passed on as the message
UnderlyingErrorReply == [statusCode |-> 500, body |-> [message |-> "DynamoDB connection failed"]]

\* catch (error) { return { statusCode: 500, message: 'Internal server error' } }
InternalError == Reply(500, "Internal server error")

Created(t) == [statusCode |-> 201, body |-> [task |-> t]]

\* the collaborators and the handler's locals at the start of an invocation
FreshInvocation ==
  /\ pc = "start"
  /\ response = NoResponse
  /\ assigned = <<>>
  /\ idx = 1
  /\ resolved = <<>>
  /\ task = EmptyObject
  /\ getCalls = <<>>
  /\ putCalls = <<>>
  /\ putResults = <<>>
  /\ sendCalls = <<>>
  /\ sendResults = <<>>

Init ==
  /\ event \in Events
  /\ invocation = 1
  /\ created = <<>>
  /\ NoOperations
  /\ pc = "start"
  /\ response = NoResponse
  /\ assigned = <<>>
  /\ idx = 1
  /\ resolved = <<>>
  /\ task = EmptyObject
  /\ getCalls = <<>>
  /\ putCalls = <<>>
  /\ putResults = <<>>
  /\ sendCalls = <<>>
  /\ sendResults = <<>>
  /\ tasksTable = {}

\* ------------------------------------------------------ handler, line 13
\* JSON.parse(event.body || '{}')
ParseThrows(b) == b.kind = "malformed"

ParsedIsNull(b) == b.kind = "null"

ParsedBody(b) == IF b.kind = "json" THEN b.value ELSE EmptyObject

\* event.requestContext?.authorizer?.claims?.['custom:role']
ActorRole(e) ==
  IF Has(e.claims, "custom:role") THEN e.claims["custom:role"] ELSE Undefined

ActorId(e) == IF Has(e.claims, "sub") THEN e.claims["sub"] ELSE Undefined

IsAdmin(role) == role = "admin"

\* only the presence of assignedTo is checked
MissingAssigneesOnly(body) == ~Has(body, "assignedTo")

\* !body.title || !body.assignedTo : an empty string is falsy, an array never is
MissingRequired(body) ==
  \/ ~Has(body, "title")
  \/ body["title"] = <<>>
  \/ ~Has(body, "assignedTo")

\* the members as submitted, duplicates kept
KeepDuplicates(members) == members

\* only a member equal to the one right before it is dropped
RECURSIVE DropAdjacentDuplicates(_)
DropAdjacentDuplicates(members) ==
  IF Len(members) <= 1 THEN members
  ELSE LET front == DropAdjacentDuplicates(SubSeq(members, 1, Len(members) - 1))
           last == members[Len(members)]
       IN IF members[Len(members) - 1] = last THEN front ELSE Append(front, last)

\* [...new Set(members)] keeps the first occurrence of each member, in order
RECURSIVE UniqueMembers(_)
UniqueMembers(members) ==
  IF members = <<>> THEN <<>>
  ELSE LET front == UniqueMembers(SubSeq(members, 1, Len(members) - 1))
           last == members[Len(members)]
       IN IF \E i \in 1..Len(front) : front[i] = last
          THEN front ELSE Append(front, last)

\* !Array.isArray(members) || members.length === 0
InvalidMembers(body) ==
  \/ ~Has(body, "assignedTo")
  \/ ~body["assignedTo"].isArray
  \/ Len(body["assignedTo"].items) = 0

\* strip script elements and stray script tags from a text
RECURSIVE StripFrom(_, _)
StripFrom(s, inScript) ==
  IF s = <<>> THEN <<>>
  ELSE IF Head(s) = ScriptOpen THEN StripFrom(Tail(s), TRUE)
  ELSE IF Head(s) = ScriptClose THEN StripFrom(Tail(s), FALSE)
  ELSE IF inScript THEN StripFrom(Tail(s), TRUE)
  ELSE <<Head(s)>> \o StripFrom(Tail(s), FALSE)

\* the text is stored as submitted
KeepMarkup(s) == s

Sanitize(s) == StripFrom(s, FALSE)

\* const task = { taskId: 'test-123', ...body, status: 'To Do' }
GeneratedTaskId == "test-123"

\* { taskId: 'test-123', status: 'To Do', ...body }: the payload's status wins
BuildTaskBodyLast(body) ==
  Spread(Spread([taskId |-> GeneratedTaskId], [status |-> "To Do"]), body)

BuildTask(body) ==
  Spread(Spread([taskId |-> GeneratedTaskId], body), [status |-> "To Do"])

\* the item handed to the storage write
PersistedItem(body, members, actor) ==
  Spread(Spread(BuildTask(body),
                IF Has(body, "title")
                THEN [title |-> Sanitize(body["title"])] ELSE EmptyObject),
         [k \in {"assignedTo", "createdBy"} |->
            IF k = "assignedTo" THEN members ELSE actor])

UrgencyMarker == "U+1F6A8"

\* the flag is put on priority "high"
SubjectFlagsHigh(t) ==
  IF Has(t, "priority") /\ t["priority"] = "high"
  THEN <<UrgencyMarker, "Urgent", "Task", "Assigned">>
  ELSE <<"New", "Task", "Assigned">>

Subject(t) ==
  IF Has(t, "priority") /\ t["priority"] = "urgent"
  THEN <<UrgencyMarker, "Urgent", "Task", "Assigned">>
  ELSE <<"New", "Task", "Assigned">>

Email(t, res) == [to |-> res["Item"].email, subject |-> Subject(t)]

\* the stored task is deleted again when a send fails
RollBack(table, item) == table \ {item}

\* a failed send is reported; the stored task is left as it is
AfterSendFailure(table, item) == table

\* ------------------------------------------------------------- actions
\* lines 13-22 of the handler; what passes goes on to the resolver, which has
\* nothing to look up when the list is empty
HandlerEntry ==
  /\ pc = "start"
  /\ UNCHANGED <<event, idx, resolved, task, getCalls, putCalls, putResults,
                 sendCalls, sendResults, tasksTable, historyVars>>
  /\ IF ParseThrows(event.body)
     THEN pc' = "threw" /\ UNCHANGED <<response, assigned>>
     ELSE IF ~IsAdmin(ActorRole(event))
     THEN /\ response' = Reply(403, "Only admins can create tasks")
          /\ pc' = "done" /\ UNCHANGED assigned
     ELSE IF ParsedIsNull(event.body)
     THEN pc' = "threw" /\ UNCHANGED <<response, assigned>>
     ELSE IF MissingRequired(ParsedBody(event.body))
     THEN /\ response' = Reply(400, "Missing required fields")
          /\ pc' = "done" /\ UNCHANGED assigned
     ELSE /\ assigned' = UniqueMembers(ParsedBody(event.body)["assignedTo"].items)
          /\ pc' = IF assigned' = <<>> THEN "persisting" ELSE "resolving"
          /\ UNCHANGED response

\* every directory get is issued in the same step
LookupInParallel ==
  /\ pc = "resolving"
  /\ idx <= Len(assigned)
  /\ getCalls' = assigned
  /\ resolved' = [i \in 1..Len(assigned) |-> DirectoryGet(assigned[i])]
  /\ idx' = 1
  /\ UNCHANGED <<event, assigned, task, putCalls, putResults, sendCalls,
                 sendResults, tasksTable, historyVars>>
  /\ IF \A i \in 1..Len(resolved') : IsActiveUser(resolved'[i])
     THEN pc' = "persisting" /\ UNCHANGED response
     ELSE /\ response' = Reply(400, "Invalid assignees")
          /\ pc' = "done"

\* one directory get; after the last one the all-or-nothing decision
Lookup ==
  /\ pc = "resolving"
  /\ idx <= Len(assigned)
  /\ getCalls' = Append(getCalls, assigned[idx])
  /\ resolved' = Append(resolved, DirectoryGet(assigned[idx]))
  /\ UNCHANGED <<event, assigned, task, putCalls, putResults, sendCalls,
                 sendResults, tasksTable, historyVars>>
  /\ IF idx < Len(assigned)
     THEN idx' = idx + 1 /\ UNCHANGED <<pc, response>>
     ELSE /\ idx' = 1
          /\ IF \A i \in 1..Len(resolved') : IsActiveUser(resolved'[i])
             THEN pc' = "persisting" /\ UNCHANGED response
             ELSE /\ response' = Reply(400, "Invalid assignees")
                  /\ pc' = "done"

\* build the task and put it; the write succeeds or fails
Persist ==
  /\ pc = "persisting"
  /\ LET item == PersistedItem(ParsedBody(event.body), assigned, ActorId(event))
     IN /\ task' = item
        /\ putCalls' = Append(putCalls, [Item |-> item])
        /\ \E ok \in BOOLEAN :
             /\ putResults' = Append(putResults, ok)
             /\ IF ok
                THEN /\ tasksTable' = tasksTable \cup {item}
                     /\ IF assigned = <<>>
                        THEN response' = Created(item) /\ pc' = "done"
                        ELSE pc' = "notifying" /\ UNCHANGED response
                ELSE /\ response' = InternalError
                     /\ pc' = "done" /\ UNCHANGED tasksTable
  /\ UNCHANGED <<event, assigned, idx, resolved, getCalls, sendCalls, sendResults,
                 historyVars>>

\* one email to the next assignee; the send succeeds or fails
Send ==
  /\ pc = "notifying"
  /\ idx <= Len(assigned)
  /\ sendCalls' = Append(sendCalls, Email(task, resolved[idx]))
  /\ UNCHANGED <<event, assigned, resolved, task, getCalls, putCalls, putResults,
                 historyVars>>
  /\ \E ok \in BOOLEAN :
       /\ sendResults' = Append(sendResults, ok)
       /\ IF ~ok
          THEN /\ response' = InternalError
               /\ tasksTable' = AfterSendFailure(tasksTable, task)
               /\ pc' = "done" /\ UNCHANGED idx
          ELSE /\ idx' = idx + 1
               /\ UNCHANGED tasksTable
               /\ IF idx < Len(assigned)
                  THEN UNCHANGED <<pc, response>>
                  ELSE /\ response' = Created(task)
                       /\ pc' = "done"

Next == HandlerEntry \/ Lookup \/ Persist \/ Send

Spec == Init /\ [][Next]_vars

\* ------------------------------------------------- repeated invocations
\* The caller invokes the handler again once an invocation has ended; the
\* tasks table is the one thing the invocations share.
RetryTitles == {<<"Test", "Task">>, <<"Other", "Task">>}

RetryPayloads ==
  { Spread(Spread([title |-> t], [assignedTo |-> Array(<<"user1">>)]), i) :
      t \in RetryTitles, i \in OptionalField("taskId", {"client-id"}) }

RetryEvents ==
  [claims : {[k \in {"sub", "email", "custom:role"} |->
                IF k = "custom:role" THEN "admin" ELSE "actor"]},
   body : {[kind |-> "json", value |-> p] : p \in RetryPayloads}]

CreatedNow == IF response.statusCode = 201 THEN <<response.body["task"]>> ELSE <<>>

InitRetry ==
  /\ event \in RetryEvents
  /\ invocation = 1
  /\ created = <<>>
  /\ tasksTable = {}
  /\ FreshInvocation
  /\ NoOperations

Reinvoke ==
  /\ pc \in {"done", "threw"}
  /\ invocation < MaxInvocations
  /\ invocation' = invocation + 1
  /\ created' = created \o CreatedNow
  /\ event' \in RetryEvents
  /\ pc' = "start"
  /\ response' = NoResponse
  /\ assigned' = <<>>
  /\ idx' = 1
  /\ resolved' = <<>>
  /\ task' = EmptyObject
  /\ getCalls' = <<>>
  /\ putCalls' = <<>>
  /\ putResults' = <<>>
  /\ sendCalls' = <<>>
  /\ sendResults' = <<>>
  /\ UNCHANGED <<tasksTable, opsVars>>

NextRetry == Next \/ Reinvoke

SpecRetry == InitRetry /\ [][NextRetry]_vars

\* ------------------------------------------- operations on existing tasks
\* The status update, the comment, the listing and the assignment work on a
\* list of tasks that exist already; no create-task invocation is running.
Actors == {"member1", "member2"}

ActorRoles == {"admin", "member", Undefined}

AssigneeLists == {<<"member1">>, <<"member2">>, <<"member1", "member2">>}

\* const validStatuses = ['To Do', 'In Progress', 'Completed']
validStatuses == <<"To Do", "In Progress", "Completed">>

StatusInputs == {"To Do", "In Progress", "Completed", "Invalid"}

AssignInputs ==
  {NotAnArray, Array(<<>>), Array(<<"member1", "member2", "member1">>)}

ExistingTask(id, members) ==
  [taskId |-> id, assignedTo |-> members, status |-> "To Do", comments |-> <<>>]

\* any value is accepted as the new status
AcceptAnyStatus(currentStatus, newStatus) == [statusCode |-> 200, status |-> newStatus]

mockUpdateStatus(currentStatus, newStatus) ==
  IF ~Contains(validStatuses, newStatus)
  THEN [statusCode |-> 400, message |-> "Invalid status"]
  ELSE [statusCode |-> 200, status |-> newStatus]

\* the new comment is put in front of the others
PrependComment(existingComments, newComment, author) ==
  <<[text |-> newComment, author |-> author, timestamp |-> now]>> \o existingComments

\* timestamp: new Date().toISOString() is the clock at the call
mockAddComment(existingComments, newComment, author) ==
  Append(existingComments,
         [text |-> newComment, author |-> author, timestamp |-> now])

\* only the first assignee of a task is compared with the user
FilterByFirstAssignee(userId, role) ==
  IF role = "admin" THEN allTasks
  ELSE SelectSeq(allTasks, LAMBDA t : t.assignedTo # <<>> /\ t.assignedTo[1] = userId)

mockGetTasks(userId, role) ==
  IF role = "admin" THEN allTasks
  ELSE SelectSeq(allTasks, LAMBDA t : Contains(t.assignedTo, userId))

mockAssignTask(members) ==
  IF InvalidMembers([assignedTo |-> members])
  THEN [statusCode |-> 400, message |-> "Invalid members"]
  ELSE [statusCode |-> 200, assignedTo |-> UniqueMembers(members.items)]

InitOps ==
  /\ event = [claims |-> EmptyObject, body |-> [kind |-> "absent"]]
  /\ invocation = 0
  /\ created = <<>>
  /\ tasksTable = {}
  /\ pc = "idle"
  /\ response = NoResponse
  /\ assigned = <<>>
  /\ idx = 1
  /\ resolved = <<>>
  /\ task = EmptyObject
  /\ getCalls = <<>>
  /\ putCalls = <<>>
  /\ putResults = <<>>
  /\ sendCalls = <<>>
  /\ sendResults = <<>>
  /\ \E a \in AssigneeLists, b \in AssigneeLists :
       allTasks = <<ExistingTask("1", a), ExistingTask("2", b)>>
  /\ opResult = NoOperation
  /\ opCount = 0
  /\ now = 0

\* PUT /tasks/:id with a new status
UpdateStatus ==
  /\ opCount < MaxOps
  /\ \E i \in 1..Len(allTasks), newStatus \in StatusInputs :
       LET r == mockUpdateStatus(allTasks[i].status, newStatus)
       IN /\ opResult' = [op |-> "updateStatus", index |-> i,
                          newStatus |-> newStatus, result |-> r]
          /\ allTasks' = IF r.statusCode = 200
                         THEN [allTasks EXCEPT ![i].status = r.status]
                         ELSE allTasks
  /\ opCount' = opCount + 1
  /\ UNCHANGED <<now, createVars>>

\* a comment by an actor on a task
AddComment ==
  /\ opCount < MaxOps
  /\ \E i \in 1..Len(allTasks), author \in Actors :
       LET r == mockAddComment(allTasks[i].comments, "Test comment", author)
       IN /\ opResult' = [op |-> "addComment", index |-> i, author |-> author,
                          text |-> "Test comment", result |-> r]
          /\ allTasks' = [allTasks EXCEPT ![i].comments = r]
  /\ opCount' = opCount + 1
  /\ UNCHANGED <<now, createVars>>

\* GET /tasks by an actor
GetTasks ==
  /\ opCount < MaxOps
  /\ \E userId \in Actors, role \in ActorRoles :
       opResult' = [op |-> "getTasks", userId |-> userId, role |-> role,
                    result |-> mockGetTasks(userId, role)]
  /\ opCount' = opCount + 1
  /\ UNCHANGED <<allTasks, now, createVars>>

\* a new member list for a task
AssignTask ==
  /\ opCount < MaxOps
  /\ \E i \in 1..Len(allTasks), members \in AssignInputs :
       LET r == mockAssignTask(members)
       IN /\ opResult' = [op |-> "assignTask", index |-> i, result |-> r]
          /\ allTasks' = IF r.statusCode = 200
                         THEN [allTasks EXCEPT ![i].assignedTo = r.assignedTo]
                         ELSE allTasks
  /\ opCount' = opCount + 1
  /\ UNCHANGED <<now, createVars>>

\* time passes between two operations
Tick ==
  /\ now < MaxClock
  /\ now' = now + 1
  /\ UNCHANGED <<allTasks, opResult, opCount, createVars>>

NextOps == UpdateStatus \/ AddComment \/ GetTasks \/ AssignTask \/ Tick

SpecOps == InitOps /\ [][NextOps]_vars

\* ------------------------------------------------- vocabulary of the claims
Payload == ParsedBody(event.body)

\* the body is absent or is the JSON text of an object
HasPayload == event.body.kind \in {"absent", "json"}

ByAdmin == Has(event.claims, "custom:role") /\ event.claims["custom:role"] = "admin"

Range(seq) == {seq[i] : i \in 1..Len(seq)}

IsPrefix(p, q) == Len(p) <= Len(q) /\ \A i \in 1..Len(p) : p[i] = q[i]

\* the submitted assignees, when assignedTo is a non-empty array
HasMembers ==
  /\ HasPayload /\ Has(Payload, "assignedTo")
  /\ Payload["assignedTo"].isArray
  /\ Payload["assignedTo"].items # <<>>

Members == Payload["assignedTo"].items

\* the identifier names an existing, active user of the directory
Resolves(u) == u \in DOMAIN UsersTable /\ UsersTable[u].status = "active"

ValidPriorities == {"low", "normal", "high", "urgent"}

\* a payload the validator accepts
ValidPayload ==
  /\ HasMembers
  /\ Has(Payload, "title") /\ Payload["title"] # <<>>
  /\ Has(Payload, "priority") => Payload["priority"] \in ValidPriorities

Returned == pc # "start"

\* ------------------------------------------------------------------- C1
\* C1: every request whose actor role is not exactly "admin" (also with no
\* claims or no role claim) is answered 403 "Only admins can create tasks",
\* whatever the body, with no put and no send.
C1_NonAdminForbidden ==
  (~ByAdmin /\ Returned) =>
    /\ pc = "done"
    /\ response = Reply(403, "Only admins can create tasks")
    /\ putCalls = <<>> /\ sendCalls = <<>>

\* ------------------------------------------------------------------- C2
\* C2: an admin request whose payload lacks title or lacks assignedTo is
\* answered 400 "Missing required fields" and nothing is put.
C2_MissingFieldsRejected ==
  (ByAdmin /\ HasPayload /\ Returned
     /\ (~Has(Payload, "title") \/ ~Has(Payload, "assignedTo"))) =>
    /\ pc = "done"
    /\ response = Reply(400, "Missing required fields")
    /\ putCalls = <<>>

C2_Witness ==
  /\ ByAdmin /\ event.body.kind = "json"
  /\ Has(Payload, "title") /\ Payload["title"] = <<"Test", "Task">>
  /\ ~Has(Payload, "assignedTo")
  /\ pc = "done" /\ response.statusCode = 400

PutSucceeded == putResults = <<TRUE>>

AllSendsSucceeded == \A i \in 1..Len(sendResults) : sendResults[i]

AllResolve == \A u \in Range(Members) : Resolves(u)

IsCreatedTask(r) ==
  /\ r.statusCode = 201
  /\ Has(r.body, "task")
  /\ Has(r.body["task"], "taskId")
  /\ Has(r.body["task"], "status") /\ r.body["task"]["status"] = "To Do"

SendFailsInStep ==
  /\ Len(sendResults') = Len(sendResults) + 1
  /\ ~sendResults'[Len(sendResults')]

PayloadPriorityIs(p) == Has(Payload, "priority") /\ Payload["priority"] = p

HasScriptTitle ==
  /\ HasPayload /\ Has(Payload, "title")
  /\ Contains(Payload["title"], ScriptOpen)

EmptyMembers ==
  /\ HasPayload /\ Has(Payload, "assignedTo")
  /\ Payload["assignedTo"].isArray
  /\ Payload["assignedTo"].items = <<>>

C11_EmptyAssigneesRejected ==
  /\ (ByAdmin /\ EmptyMembers) =>
       /\ pc = "done" => response.statusCode = 400
       /\ putCalls = <<>> /\ tasksTable = {}
  /\ \A t \in tasksTable : t["assignedTo"] # <<>>

\* ------------------------------------------------------------------ C12
\* C12: a request whose priority is present and is not one of low, normal,
\* high, urgent is answered 400 and nothing is put; the priority of every
\* stored task is one of the four values.
InvalidPriority ==
  /\ HasPayload /\ Has(Payload, "priority")
  /\ Payload["priority"] \notin ValidPriorities

C12_InvalidPriorityRejected ==
  /\ (ByAdmin /\ InvalidPriority) =>
       /\ pc = "done" => response.statusCode = 400
       /\ putCalls = <<>>
  /\ \A t \in tasksTable : Has(t, "priority") => t["priority"] \in ValidPriorities

\* ------------------------------------------------------------------ C13
\* C13: any two successful creations, a re-invocation with the identical
\* payload included, return tasks with different taskId values.
AllCreated == created \o CreatedNow

C13_DistinctTaskIds ==
  \A i, j \in 1..Len(AllCreated) :
    AllCreated[i]["taskId"] = AllCreated[j]["taskId"] => i = j

\* ------------------------------------------------------------------ C14
\* C14: a status update answers 200 and sets the task's status to the new
\* value exactly when the new value is "To Do", "In Progress" or
\* "Completed", whatever the current status; any other value answers 400
\* and leaves the status as it was; no other task changes; and every
\* task's status is always one of the three values.
EnumeratedStatuses == {"To Do", "In Progress", "Completed"}

IsStepOf(op) == opCount' # opCount /\ opResult'.op = op

C14_StatusUpdate ==
  /\ [](\A i \in 1..Len(allTasks) : allTasks[i].status \in EnumeratedStatuses)
  /\ [][ IsStepOf("updateStatus") =>
           LET i == opResult'.index
               s == opResult'.newStatus
               r == opResult'.result
           IN /\ s \in EnumeratedStatuses =>
                   /\ r.statusCode = 200
                   /\ allTasks'[i].status = s
              /\ s \notin EnumeratedStatuses =>
                   /\ r.statusCode = 400
                   /\ allTasks'[i].status = allTasks[i].status
              /\ r.statusCode \in {200, 400}
              /\ \A j \in 1..Len(allTasks) : j # i => allTasks'[j] = allTasks[j]
              /\ Len(allTasks') = Len(allTasks) ]_vars

C14_Witness ==
  /\ opResult.op = "updateStatus"
  /\ opResult.newStatus = "Invalid"
  /\ opResult.result.statusCode = 400
  /\ allTasks[opResult.index].status = "Completed"

\* ------------------------------------------------------------------ C15
\* C15: adding a comment to a task yields the task's earlier comments,
\* unchanged and in the same order, followed by exactly one new entry with
\* the given text, the author and a timestamp; no step removes, reorders
\* or alters a comment that a task already has.
C15_CommentsAppendOnly ==
  [][ /\ Len(allTasks') = Len(allTasks)
      /\ \A i \in 1..Len(allTasks) :
           IsPrefix(allTasks[i].comments, allTasks'[i].comments)
      /\ IsStepOf("addComment") =>
           LET i == opResult'.index
               before == allTasks[i].comments
               after == allTasks'[i].comments
           IN /\ Len(after) = Len(before) + 1
              /\ after = opResult'.result
              /\ DOMAIN after[Len(after)] = {"text", "author", "timestamp"}
              /\ after[Len(after)].text = opResult'.text
              /\ after[Len(after)].author = opResult'.author
              /\ \A j \in 1..Len(allTasks) :
                   j # i => allTasks'[j].comments = allTasks[j].comments ]_vars

C15_Witness ==
  /\ opResult.op = "addComment"
  /\ \E i \in 1..Len(allTasks) :
       /\ Len(allTasks[i].comments) = 2
       /\ allTasks[i].comments[1].author = "member1"
       /\ allTasks[i].comments[2].author = "member2"
       /\ allTasks[i].comments[1].timestamp < allTasks[i].comments[2].timestamp

\* ------------------------------------------------------------------ C16
\* C16: a listing for an actor with role admin is the whole task list; a
\* listing for any other actor holds exactly the tasks whose assignedTo
\* contains the actor's user identifier, each once, and no other task.
Listed == opResult.op = "getTasks"

C16_ListingFilteredByRole ==
  Listed =>
    IF opResult.role = "admin"
    THEN opResult.result = allTasks
    ELSE /\ Range(opResult.result) =
              {t \in Range(allTasks) : opResult.userId \in Range(t.assignedTo)}
         /\ Len(opResult.result) = Cardinality(Range(opResult.result))

C16_Witness ==
  /\ Listed
  /\ opResult.role = "member"
  /\ opResult.userId = "member2"
  /\ Len(opResult.result) = 1
  /\ opResult.result[1].assignedTo = <<"member1", "member2">>
  /\ \E i \in 1..Len(allTasks) : allTasks[i].assignedTo = <<"member1">>

\* ------------------------------------------------------------------ C17
\* C17: within one invocation no collaborator is called unless the actor is
\* an admin, the directory is asked for the assignees one per step in
\* assignee order, the put is issued only after every lookup has returned,
\* the first send only after the put has succeeded, the sends go out one
\* per step in assignee order, and no step issues more than one call.
CallCount == Len(getCalls) + Len(putCalls) + Len(sendCalls)

CallsInOrder ==
  /\ CallCount > 0 => ByAdmin
  /\ IsPrefix(getCalls, assigned)
  /\ Len(resolved) = Len(getCalls)
  /\ putCalls # <<>> => getCalls = assigned
  /\ Len(putCalls) <= 1 /\ Len(putResults) = Len(putCalls)
  /\ sendCalls # <<>> => putResults = <<TRUE>>
  /\ Len(sendResults) = Len(sendCalls)
  /\ IsPrefix([i \in 1..Len(sendCalls) |-> sendCalls[i].to],
              [i \in 1..Len(resolved) |-> IF IsActiveUser(resolved[i])
                                           THEN resolved[i]["Item"].email
                                           ELSE Undefined])

C18_AlwaysStructuredResponse ==
  /\ pc # "threw"
  /\ pc = "done" =>
       /\ response.statusCode \in {201, 400, 403, 500}
       /\ response.statusCode # 201 => Has(response.body, "message")
  /\ pc # "done" => response = NoResponse

\* ------------------------------------------------------------------ C19
\* C19: the taskId of a created task is the generated identifier; a taskId
\* in the payload never becomes the created task's taskId.
C19_GeneratedTaskIdKept ==
  \A i \in 1..Len(putCalls) :
    /\ putCalls[i].Item["taskId"] = GeneratedTaskId
    /\ Has(Payload, "taskId") => putCalls[i].Item["taskId"] # Payload["taskId"]

====
